---- MODULE Spec2Model ----
(***************************************************************************)
(* Model of app.py (ML-WebApp-with-Streamlit-and-Python-master): one       *)
(* Streamlit script, main(), re-run by the shell on every user             *)
(* interaction.  The model covers load_data, preprocess_data, split_data,  *)
(* plot_metrics, the three classifier branches and the st.cache_data       *)
(* decorators.  Library calls are modelled by their documented behaviour:  *)
(*   - st.cache_data(persist=True): an in-memory cache backed by a disk    *)
(*     cache; a hit replays the st.* elements the function emitted;        *)
(*   - train_test_split(test_size=0.3, random_state=0): n_test =           *)
(*     ceil(0.3 * n), n_train = n - n_test, a permutation drawn from a     *)
(*     generator freshly seeded with 0, test = its first n_test indices;   *)
(*   - LabelEncoder.fit_transform: rank among the sorted distinct values;  *)
(*   - round(x, 2) on binary-exact values: round half to even.             *)
(* Strings of the CSV are single characters, held as their code points.    *)
(* Metric values are held in thousandths, displayed values in hundredths.  *)
(***************************************************************************)
EXTENDS Integers, Sequences, FiniteSets, TLC

VARIABLES
    mem_load,    \* st.cache_data memory cache of load_data
    disk_load,   \* st.cache_data disk cache of load_data (persist=True)
    mem_split,   \* st.cache_data memory cache of split_data
    disk_split,  \* st.cache_data disk cache of split_data (persist=True)
    np_global,   \* state of numpy's global generator (np.random)
    ui,          \* widget state the shell keeps for the session
    fresh,       \* TRUE until the first run after a (re)start of the session
    strict,      \* the installed scikit-learn validates constructor parameters
    run,         \* what the last run of main() did
    df_in,       \* split development: the encoded dataset under test
    first_split, \* split development: first result split_data returned for df_in
    last_split,  \* split development: latest result split_data returned for df_in
    n_samples,   \* sizes development: number of rows handed to train_test_split
    sizes        \* sizes development: the (n_train, n_test) it derived

vars == <<mem_load, disk_load, mem_split, disk_split, np_global, ui,
          fresh, strict, run, df_in, first_split, last_split, n_samples, sizes>>

----------------------------------------------------------------------------
(* Bounds of the model *)

MaxRows == 4
RngStates == 4
SizeSpan == 60

----------------------------------------------------------------------------
(* Python values *)

None == [kind |-> "None", dtypes |-> <<>>, rows |-> <<>>]

DataFrame(dtypes, rows) == [kind |-> "DataFrame", dtypes |-> dtypes, rows |-> rows]

Columns == {"type", "feat"}

\* DataFrame.empty: no rows.  None has no such attribute.
HasAttrEmpty(v) == v.kind = "DataFrame"

DfEmpty(df) == Len(df.rows) = 0

RECURSIVE SeqToSet(_)
SeqToSet(s) == IF s = <<>> THEN {} ELSE {Head(s)} \cup SeqToSet(Tail(s))

----------------------------------------------------------------------------
(* preprocess_data *)

\* LabelEncoder.fit_transform: classes_ = sorted distinct values, code = index
LabelEncode(values, v) == Cardinality({w \in values : w < v})

preprocess_data(df) ==
    LET colvals(c) == {df.rows[i][c] : i \in 1..Len(df.rows)}
        enc(c, v) == IF df.dtypes[c] = "object" THEN LabelEncode(colvals(c), v) ELSE v
    IN DataFrame([c \in Columns |-> "int64"],
                 [i \in 1..Len(df.rows) |-> [c \in Columns |-> enc(c, df.rows[i][c])]])

----------------------------------------------------------------------------
(* split_data *)

\* _validate_shuffle_split with test_size = 0.3: n_test = ceil(0.3 * n)
NTestRound(n) == (3 * n + 5) \div 10

NTest(n) == (3 * n + 9) \div 10

NTrain(n) == n - NTest(n)

\* numpy generator: seeding and one step
Seeded(seed) == seed % RngStates

RngNext(s) == (s * 5 + 3) % RngStates

RECURSIVE Shuffle(_, _)
Shuffle(s, idxs) ==
    IF idxs = <<>> THEN <<>>
    ELSE LET k == (s % Len(idxs)) + 1
             rest == [j \in 1..(Len(idxs) - 1) |-> IF j < k THEN idxs[j] ELSE idxs[j + 1]]
         IN <<idxs[k]>> \o Shuffle(RngNext(s), rest)

\* check_random_state(None) hands out the global generator
RandomStateGlobal(seed) == np_global

\* check_random_state(0) builds a generator seeded with 0
RandomState(seed) == Seeded(seed)

Take(perm, from, to) == [j \in 1..(to - from + 1) |-> perm[from + j - 1]]

\* ShuffleSplit: ind_test = permutation[:n_test], ind_train = the next n_train
TestIndices(perm, n) == Take(perm, 1, NTest(n))

TrainIndices(perm, n) == Take(perm, NTest(n) + 1, NTest(n) + NTrain(n))

NoSplit == [exc |-> "", x_train |-> <<>>, x_test |-> <<>>, y_train |-> <<>>, y_test |-> <<>>]

split_data(df) ==
    LET n == Len(df.rows)
        y == [i \in 1..n |-> [idx |-> i - 1, val |-> df.rows[i].type]]
        x == [i \in 1..n |-> [idx |-> i - 1, val |-> df.rows[i].feat]]
        perm == Shuffle(RandomState(0), [i \in 1..n |-> i])
        tr == TrainIndices(perm, n)
        te == TestIndices(perm, n)
    IN IF NTrain(n) = 0
       THEN [NoSplit EXCEPT !.exc = "ValueError"]
       ELSE [exc |-> "",
             x_train |-> [j \in 1..Len(tr) |-> x[tr[j]]],
             x_test |-> [j \in 1..Len(te) |-> x[te[j]]],
             y_train |-> [j \in 1..Len(tr) |-> y[tr[j]]],
             y_test |-> [j \in 1..Len(te) |-> y[te[j]]]]

----------------------------------------------------------------------------
(* st.cache_data(persist=True) *)

\* A cache is a set of entries [key, value, msgs]; at most one per key.
Entry(key, res) == [key |-> key, value |-> res.ret, msgs |-> res.msgs]

Lookup(cache, key) == {e \in cache : e.key = key}

HitKindMemoryOnly(mem, disk, key) ==
    IF Lookup(mem, key) # {} THEN "mem" ELSE "miss"

\* the memory cache is asked first, then the disk cache
HitKind(mem, disk, key) ==
    IF Lookup(mem, key) # {} THEN "mem"
    ELSE IF Lookup(disk, key) # {} THEN "disk"
    ELSE "miss"

\* persist=True: a computed result is also written to the disk cache
Persist(disk, key, res) == disk \cup {Entry(key, res)}

\* The decorated call.  res is what the function body does when it runs:
\* [exc, ret, msgs].  A hit returns the stored value and replays the stored
\* elements; a body that raises stores nothing.
CachedCall(mem, disk, key, res) ==
    LET hit == HitKind(mem, disk, key)
        e == CHOOSE c \in (IF hit = "mem" THEN Lookup(mem, key) ELSE Lookup(disk, key)) : TRUE
    IN CASE hit = "mem" ->
              [hit |-> hit, exc |-> "", ret |-> e.value, msgs |-> e.msgs,
               mem |-> mem, disk |-> disk]
         [] hit = "disk" ->
              [hit |-> hit, exc |-> "", ret |-> e.value, msgs |-> e.msgs,
               mem |-> mem \cup {e}, disk |-> disk]
         [] OTHER ->
              IF res.exc # ""
              THEN [hit |-> hit, exc |-> res.exc, ret |-> res.ret, msgs |-> res.msgs,
                    mem |-> mem, disk |-> disk]
              ELSE [hit |-> hit, exc |-> "", ret |-> res.ret, msgs |-> res.msgs,
                    mem |-> mem \cup {Entry(key, res)}, disk |-> Persist(disk, key, res)]

CachedSplitData(df) ==
    LET s == split_data(df)
    IN CachedCall(mem_split, disk_split, df, [exc |-> s.exc, ret |-> s, msgs |-> <<>>])

----------------------------------------------------------------------------
(* Elements the script hands to the shell, and Python values of widgets *)

El(kind, text, val) == [kind |-> kind, text |-> text, val |-> val]

PyStr(s) == [py |-> "str", repr |-> s]

PyNone == [py |-> "NoneType", repr |-> "None"]

\* bool(v) as Python evaluates it
Truthy(v) ==
    CASE v.py = "bool" -> v.repr = "True"
      [] v.py = "str" -> v.repr # ""
      [] OTHER -> FALSE

----------------------------------------------------------------------------
(* load_data *)

HeaderOnly == DataFrame([c \in Columns |-> "object"], <<>>)

OneRow == DataFrame([c \in Columns |-> "object"], <<[type |-> 101, feat |-> 120]>>)

Mushrooms ==
    DataFrame([c \in Columns |-> "object"],
              <<[type |-> 112, feat |-> 120], [type |-> 101, feat |-> 120],
                [type |-> 101, feat |-> 98], [type |-> 112, feat |-> 120],
                [type |-> 101, feat |-> 98], [type |-> 112, feat |-> 98],
                [type |-> 101, feat |-> 120]>>)

\* what the URL may serve
Sources == {HeaderOnly, OneRow, Mushrooms}

\* what the network does during one execution of the body of load_data
NetOutcomes ==
    {[get |-> g, status |-> "", read_csv |-> "", data |-> None] :
        g \in {"ConnectionError", "Timeout"}}
    \cup {[get |-> "", status |-> "HTTPError", read_csv |-> "", data |-> None]}
    \cup {[get |-> "", status |-> "", read_csv |-> e, data |-> None] :
        e \in {"URLError", "EmptyDataError"}}
    \cup {[get |-> "", status |-> "", read_csv |-> "", data |-> d] : d \in Sources}

NoFetch == [get |-> "", status |-> "", read_csv |-> "", data |-> None]

\* subclasses of requests.exceptions.RequestException
RequestExceptions == {"ConnectionError", "Timeout", "HTTPError"}

Head5(df) == IF Len(df.rows) < 5 THEN Len(df.rows) ELSE 5

FetchError == El("error", "Error fetching the data", 0)

load_data_silent(net) ==
    CASE net.get # "" \/ net.status # "" ->
           [exc |-> "", ret |-> None, msgs |-> <<>>, calls |-> <<"requests.get">>]
      [] net.read_csv # "" ->
           [exc |-> net.read_csv, ret |-> None, msgs |-> <<>>,
            calls |-> <<"requests.get", "raise_for_status", "pd.read_csv">>]
      [] OTHER ->
           [exc |-> "", ret |-> net.data,
            msgs |-> <<El("write", "data.head()", Head5(net.data))>>,
            calls |-> <<"requests.get", "raise_for_status", "pd.read_csv">>]

load_data(net) ==
    CASE net.get \in RequestExceptions ->
           [exc |-> "", ret |-> None, msgs |-> <<FetchError>>,
            calls |-> <<"requests.get">>]
      [] net.get = "" /\ net.status \in RequestExceptions ->
           [exc |-> "", ret |-> None, msgs |-> <<FetchError>>,
            calls |-> <<"requests.get", "raise_for_status">>]
      [] net.get = "" /\ net.status = "" /\ net.read_csv # "" ->
           [exc |-> net.read_csv, ret |-> None, msgs |-> <<>>,
            calls |-> <<"requests.get", "raise_for_status", "pd.read_csv">>]
      [] OTHER ->
           [exc |-> "", ret |-> net.data,
            msgs |-> <<El("write", "data.head()", Head5(net.data))>>,
            calls |-> <<"requests.get", "raise_for_status", "pd.read_csv">>]

LoadKey == "load_data()"

----------------------------------------------------------------------------
(* plot_metrics and the metrics of a prediction *)

MetricNames == {"Confusion Matrix", "ROC Curve", "Precision-Recall Curve"}

Plot(name) == <<El("subheader", name, 0), El("pyplot", name, 0)>>

plot_metrics_all(metrics_list) ==
    Plot("Confusion Matrix") \o Plot("ROC Curve") \o Plot("Precision-Recall Curve")

plot_metrics(metrics_list) ==
    (IF "Confusion Matrix" \in metrics_list THEN Plot("Confusion Matrix") ELSE <<>>)
    \o (IF "ROC Curve" \in metrics_list THEN Plot("ROC Curve") ELSE <<>>)
    \o (IF "Precision-Recall Curve" \in metrics_list
        THEN Plot("Precision-Recall Curve") ELSE <<>>)

\* round(num / den, 2) in hundredths: nearest, a tie to the even neighbour
\* (a tie needs a denominator divisible by 8; then num / den is exact in binary)
Round2(num, den) ==
    LET q == (100 * num) \div den
        r == (100 * num) % den
    IN IF 2 * r < den THEN q
       ELSE IF 2 * r > den THEN q + 1
       ELSE IF q % 2 = 0 THEN q ELSE q + 1

Positives(y) == Cardinality({j \in 1..Len(y) : y[j].val = 1})

\* the predictions a fitted model may make on y_test, by their confusion
\* counts: tp of the positives and tn of the negatives are predicted right
Predictions(y_test) ==
    [tp : 0..Positives(y_test), tn : 0..(Len(y_test) - Positives(y_test))]

\* model.score: the fraction of matching predictions
Accuracy(y_test, pred) == <<pred.tp + pred.tn, Len(y_test)>>

\* precision_score: tp / (tp + fp), 0.0 when nothing is predicted positive
Precision(y_test, pred) ==
    LET fp == (Len(y_test) - Positives(y_test)) - pred.tn
    IN IF pred.tp + fp = 0 THEN <<0, 1>> ELSE <<pred.tp, pred.tp + fp>>

\* recall_score: tp / (tp + fn), 0.0 when there is no positive
Recall(y_test, pred) ==
    IF Positives(y_test) = 0 THEN <<0, 1>> ELSE <<pred.tp, Positives(y_test)>>

----------------------------------------------------------------------------
(* The three classifier branches of main() *)

Classifiers == {"Support Vector Machine (SVM)", "Logistic Regression", "Random Forest"}

\* widget values, in the units of the widget; C in hundredths
NoWidgets ==
    [C |-> 0, kernel |-> "", gamma |-> "", max_iter |-> 0,
     n_estimators |-> 0, max_depth |-> 0, bootstrap |-> ""]

\* the values the hyperparameter widgets of a branch can return
Widgets(classifier) ==
    CASE classifier = "Support Vector Machine (SVM)" ->
           {[NoWidgets EXCEPT !.C = c, !.kernel = k, !.gamma = g] :
               c \in {1}, k \in {"rbf", "linear"}, g \in {"scale"}}
      [] classifier = "Logistic Regression" ->
           {[NoWidgets EXCEPT !.C = c, !.max_iter = i] : c \in {1}, i \in {100, 500}}
      [] OTHER ->
           {[NoWidgets EXCEPT !.n_estimators = n, !.max_depth = d, !.bootstrap = b] :
               n \in {100, 5000}, d \in {1, 20}, b \in {"True", "False"}}

\* what a widget returns before the user touched it: the minimum of a
\* number_input or slider, the first option of a radio
Defaults(classifier) ==
    CASE classifier = "Support Vector Machine (SVM)" ->
           [NoWidgets EXCEPT !.C = 1, !.kernel = "rbf", !.gamma = "scale"]
      [] classifier = "Logistic Regression" ->
           [NoWidgets EXCEPT !.C = 1, !.max_iter = 100]
      [] OTHER ->
           [NoWidgets EXCEPT !.n_estimators = 100, !.max_depth = 1, !.bootstrap = "True"]

\* the session's widget state; rendered: the last run put the widgets on the page
DefaultUi ==
    [rendered |-> FALSE, classifier |-> "Support Vector Machine (SVM)",
     widgets |-> Defaults("Support Vector Machine (SVM)"), metrics |-> {},
     show_raw |-> FALSE]

NoModel ==
    [variant |-> "", C |-> 0, kernel |-> "", gamma |-> "", max_iter |-> 0,
     n_estimators |-> 0, max_depth |-> 0, bootstrap |-> PyNone, fitted |-> FALSE,
     resampled |-> FALSE]

NoFrac == <<0, 0>>

\* the body of the try statement: what it emits before it ends or raises
TryBlockAccuracyFirst(acc, prec, rec, fail, metrics) ==
    <<El("write", "Accuracy: ", Round2(acc[1], acc[2]))>>
    \o (IF fail # "" THEN <<>>
        ELSE <<El("write", "Precision: ", Round2(prec[1], prec[2])),
               El("write", "Recall: ", Round2(rec[1], rec[2]))>>
             \o plot_metrics(metrics))

TryBlock(acc, prec, rec, fail, metrics) ==
    IF fail # "" THEN <<>>
    ELSE <<El("write", "Accuracy: ", Round2(acc[1], acc[2])),
           El("write", "Precision: ", Round2(prec[1], prec[2])),
           El("write", "Recall: ", Round2(rec[1], rec[2]))>>
         \o plot_metrics(metrics)

MetricError == El("error", "Error calculating precision and recall", 0)

\* One branch after its Classify button returned True.  m is the constructed
\* model, fitExc what fit raises ("" when it returns), fail the metric call
\* that raises ValueError ("" when both return), catches whether the try
\* statement has an except ValueError clause, hint what that clause writes
\* after the error.
Classify(title, m, fitExc, shapes, catches, hint, y_test, pred, fail, metrics) ==
    LET head == <<El("subheader", title, 0)>>
        acc == Accuracy(y_test, pred)
        prec == Precision(y_test, pred)
        rec == Recall(y_test, pred)
        dbg == IF shapes
               THEN <<El("write", "Shape of y_test:", Len(y_test)),
                      El("write", "Shape of y_pred:", Len(y_test))>>
               ELSE <<>>
        tried == <<"precision_score">>
                 \o (IF fail = "precision_score" THEN <<>> ELSE <<"recall_score">>)
                 \o (IF fail = "" THEN <<"plot_metrics">> ELSE <<>>)
    IN IF fitExc # ""
       THEN [out |-> head, calls |-> <<m.variant, "fit">>, exc |-> fitExc, model |-> m,
             acc |-> NoFrac, prec |-> NoFrac, rec |-> NoFrac, raised |-> ""]
       ELSE [out |-> head \o dbg \o TryBlock(acc, prec, rec, fail, metrics)
                     \o (IF fail # "" /\ catches THEN <<MetricError>> \o hint ELSE <<>>),
             calls |-> <<m.variant, "fit", "score", "predict">> \o tried,
             exc |-> IF fail # "" /\ ~catches THEN "ValueError" ELSE "",
             model |-> [m EXCEPT !.fitted = TRUE],
             acc |-> acc,
             prec |-> IF fail = "precision_score" THEN NoFrac ELSE prec,
             rec |-> IF fail = "" THEN rec ELSE NoFrac,
             raised |-> fail]

SvmBranch(w, y_test, pred, fail, metrics) ==
    Classify("Support Vector Machine (SVM) Results",
             [NoModel EXCEPT !.variant = "SVC", !.C = w.C, !.kernel = w.kernel,
                             !.gamma = w.gamma],
             "", TRUE, TRUE,
             <<El("write", "Please check the data and ensure there are no mismatched or missing values.", 0)>>,
             y_test, pred, fail, metrics)

LogisticRegressionBranchNoExcept(w, y_test, pred, fail, metrics) ==
    Classify("Logistic Regression Results",
             [NoModel EXCEPT !.variant = "LogisticRegression", !.C = w.C,
                             !.max_iter = w.max_iter],
             "", FALSE, FALSE, <<>>, y_test, pred, fail, metrics)

LogisticRegressionBranch(w, y_test, pred, fail, metrics) ==
    Classify("Logistic Regression Results",
             [NoModel EXCEPT !.variant = "LogisticRegression", !.C = w.C,
                             !.max_iter = w.max_iter],
             "", FALSE, TRUE, <<>>, y_test, pred, fail, metrics)

\* st.sidebar.radio(..., ('True', 'False')) returns the chosen option, a str,
\* and that str is the bootstrap argument
BootstrapArg(selection) == PyStr(selection)

\* fit of a forest: a scikit-learn that validates parameters rejects a
\* bootstrap that is no bool; one that does not tests its truth value
RandomForestFitExc(m) ==
    IF strict /\ m.bootstrap.py # "bool" THEN "InvalidParameterError" ELSE ""

RandomForestBranch(w, y_test, pred, fail, metrics) ==
    LET m == [NoModel EXCEPT !.variant = "RandomForestClassifier",
                             !.n_estimators = w.n_estimators,
                             !.max_depth = w.max_depth,
                             !.bootstrap = BootstrapArg(w.bootstrap)]
    IN Classify("Random Forest Results",
                [m EXCEPT !.resampled = RandomForestFitExc(m) = "" /\ Truthy(m.bootstrap)],
                RandomForestFitExc(m), FALSE, TRUE, <<>>, y_test, pred, fail, metrics)

NoBranch ==
    [out |-> <<>>, calls |-> <<>>, exc |-> "", model |-> NoModel,
     acc |-> NoFrac, prec |-> NoFrac, rec |-> NoFrac, raised |-> ""]

\* the three if statements on classifier; only a pressed button enters a body
Branches(classifier, pressed, w, y_test, pred, fail, metrics) ==
    IF ~pressed THEN NoBranch
    ELSE CASE classifier = "Support Vector Machine (SVM)" ->
                SvmBranch(w, y_test, pred, fail, metrics)
           [] classifier = "Logistic Regression" ->
                LogisticRegressionBranch(w, y_test, pred, fail, metrics)
           [] classifier = "Random Forest" ->
                RandomForestBranch(w, y_test, pred, fail, metrics)

\* st.sidebar.checkbox("Show raw data"): the encoded table is written
ShowRaw(show_raw, df) ==
    IF show_raw
    THEN <<El("subheader", "Mushroom Data Set (Classification)", 0),
           El("write", "df", Len(df.rows))>>
    ELSE <<>>

----------------------------------------------------------------------------
(* Idle values of the variables a development does not use *)

NoRun ==
    [called |-> FALSE, first |-> FALSE, on_disk |-> FALSE, load_hit |-> "",
     split_hit |-> "", fetched |-> FALSE, request_exc |-> "", data |-> "",
     out |-> <<>>, calls |-> <<>>, exc |-> "", classifier |-> "", widgets |-> NoWidgets,
     metrics |-> {}, show_raw |-> FALSE, pressed |-> FALSE, model |-> NoModel,
     acc |-> NoFrac, prec |-> NoFrac, rec |-> NoFrac, raised |-> ""]

NotCalled == [called |-> FALSE, res |-> NoSplit, hit |-> "", again |-> FALSE]

NoSizes == [done |-> FALSE, n_train |-> 0, n_test |-> 0]

----------------------------------------------------------------------------
(* Shell and environment steps shared by the developments *)

\* "Clear cache" of the Streamlit menu: st.cache_data.clear()
ClearCache ==
    /\ mem_load' = {}
    /\ disk_load' = {}
    /\ mem_split' = {}
    /\ disk_split' = {}
    /\ UNCHANGED <<np_global, ui, fresh, strict, run, df_in, first_split,
                   last_split, n_samples, sizes>>

\* The session (the server process) is stopped and started again: memory is
\* lost, widget state and the page are lost, the files of the disk cache stay.
RestartSession ==
    /\ mem_load' = {}
    /\ mem_split' = {}
    /\ ui' = DefaultUi
    /\ fresh' = TRUE
    /\ run' = NoRun
    /\ UNCHANGED <<disk_load, disk_split, np_global, strict, df_in, first_split,
                   last_split, n_samples, sizes>>

\* Any other user of np.random draws from the global generator
DrawGlobal ==
    /\ np_global' = RngNext(np_global)
    /\ UNCHANGED <<mem_load, disk_load, mem_split, disk_split, ui, fresh, strict,
                   run, df_in, first_split, last_split, n_samples, sizes>>

----------------------------------------------------------------------------
(* Development "app": runs of main() *)

Init ==
    /\ mem_load = {} /\ disk_load = {}
    /\ mem_split = {} /\ disk_split = {}
    /\ np_global = 0
    /\ ui = DefaultUi /\ fresh = TRUE
    /\ strict \in BOOLEAN
    /\ run = NoRun
    /\ df_in = None
    /\ first_split = NotCalled /\ last_split = NotCalled
    /\ n_samples = 0 /\ sizes = NoSizes

Banner ==
    <<El("title", "Binary Classification WebApp", 0),
      El("markdown", "Are your mushrooms edible or poisonous?", 0)>>

\* which metric call raises ValueError in a classify cycle, "" for none
Fails == {"", "precision_score", "recall_score"}

\* the end of a run: its record, the caches and the widget state it leaves
Finish(r, ml, dl, ms, ds, u) ==
    /\ run' = r
    /\ mem_load' = ml
    /\ disk_load' = dl
    /\ mem_split' = ms
    /\ disk_split' = ds
    /\ ui' = u
    /\ fresh' = FALSE
    /\ UNCHANGED <<np_global, strict, df_in, first_split, last_split, n_samples, sizes>>

\* df = load_data(); if df.empty: return -- evaluated on what load_data returned
DataOutcome(ld) ==
    CASE ld.exc # "" -> [data |-> "raised", exc |-> ld.exc]
      [] ~HasAttrEmpty(ld.ret) -> [data |-> "None", exc |-> "AttributeError"]
      [] DfEmpty(ld.ret) -> [data |-> "empty", exc |-> ""]
      [] OTHER -> [data |-> "ok", exc |-> ""]

\* One run of the script, from its first line to its return or to the
\* exception that ends it.  u holds the values the widgets return in this run,
\* pressed what the Classify button of the selected branch returns.  A widget
\* the run does not reach loses its state.
main(u, pressed) ==
    \E net \in (IF HitKind(mem_load, disk_load, LoadKey) = "miss"
                THEN NetOutcomes ELSE {NoFetch}) :
    \E body \in {load_data(net)} :
    \E ld \in {CachedCall(mem_load, disk_load, LoadKey, body)} :
    \E o \in {DataOutcome(ld)} :
    \E r0 \in {[NoRun EXCEPT !.called = TRUE, !.first = fresh, !.load_hit = ld.hit,
                             !.on_disk = Lookup(disk_load, LoadKey) # {},
                             !.request_exc = IF net.get # "" THEN net.get
                                             ELSE net.status,
                             !.fetched = ld.hit = "miss", !.data = o.data,
                             !.exc = o.exc,
                             !.out = Banner \o ld.msgs,
                             !.calls = <<"load_data">>
                                       \o (IF ld.hit = "miss" THEN body.calls
                                           ELSE <<>>)]} :
      IF o.data # "ok"
      THEN Finish(r0, ld.mem, ld.disk, mem_split, disk_split, DefaultUi)
      ELSE
        \E df \in {preprocess_data(ld.ret)} :
        \E sp \in {CachedSplitData(df)} :
        \E r1 \in {[r0 EXCEPT !.calls = @ \o <<"preprocess_data", "split_data">>,
                              !.split_hit = sp.hit, !.exc = sp.exc]} :
          IF sp.exc # ""
          THEN Finish(r1, ld.mem, ld.disk, sp.mem, sp.disk, DefaultUi)
          ELSE
            \E pred \in (IF pressed THEN Predictions(sp.ret.y_test)
                         ELSE {[tp |-> 0, tn |-> 0]}),
               fail \in (IF pressed THEN Fails ELSE {""}) :
            \E b \in {Branches(u.classifier, pressed, u.widgets, sp.ret.y_test,
                               pred, fail, u.metrics)} :
              Finish([r1 EXCEPT !.classifier = u.classifier,
                                !.widgets = u.widgets,
                                !.metrics = u.metrics,
                                !.show_raw = u.show_raw /\ b.exc = "",
                                !.pressed = pressed, !.model = b.model,
                                !.acc = b.acc, !.prec = b.prec, !.rec = b.rec,
                                !.raised = b.raised, !.exc = b.exc,
                                !.calls = @ \o b.calls,
                                !.out = @ \o b.out
                                        \o (IF b.exc = "" THEN ShowRaw(u.show_raw, df)
                                            ELSE <<>>)],
                     ld.mem, ld.disk, sp.mem, sp.disk,
                     [u EXCEPT !.rendered = TRUE, !.show_raw = @ /\ b.exc = ""])

\* the page is loaded or re-run without touching a widget
Rerun == main(ui, FALSE)

\* st.sidebar.selectbox("Classifier"): the widgets of the new branch start
\* from their defaults
SelectClassifier ==
    /\ ui.rendered
    /\ \E c \in Classifiers \ {ui.classifier} :
         main([ui EXCEPT !.classifier = c, !.widgets = Defaults(c)], FALSE)

\* one hyperparameter widget of the selected branch is changed
SetHyperparameter ==
    /\ ui.rendered
    /\ \E w \in Widgets(ui.classifier) :
         /\ Cardinality({f \in DOMAIN w : w[f] # ui.widgets[f]}) = 1
         /\ main([ui EXCEPT !.widgets = w], FALSE)

\* st.sidebar.multiselect("What metrics to plot?"): one option added or removed
SelectMetrics ==
    /\ ui.rendered
    /\ \E m \in MetricNames :
         main([ui EXCEPT !.metrics = IF m \in @ THEN @ \ {m} ELSE @ \cup {m}], FALSE)

\* st.sidebar.checkbox("Show raw data")
ToggleShowRaw ==
    /\ ui.rendered
    /\ main([ui EXCEPT !.show_raw = ~@], FALSE)

\* st.sidebar.button("Classify") of the selected branch
PressClassify ==
    /\ ui.rendered
    /\ main(ui, TRUE)

Next ==
    \/ Rerun
    \/ SelectClassifier
    \/ SetHyperparameter
    \/ SelectMetrics
    \/ ToggleShowRaw
    \/ PressClassify
    \/ RestartSession
    \/ ClearCache

Spec == Init /\ [][Next]_vars

----------------------------------------------------------------------------
(* Claims about runs of main() *)

Has(out, kind, text) == \E i \in 1..Len(out) : out[i].kind = kind /\ out[i].text = text

Shown(out, text) == {out[i].val : i \in {j \in 1..Len(out) : out[j].kind = "write"
                                                             /\ out[j].text = text}}

Calls == SeqToSet(run.calls)

Constructors == {"SVC", "LogisticRegression", "RandomForestClassifier"}

ModelWork == Constructors \cup {"fit", "score", "predict"}

Constructor(classifier) ==
    CASE classifier = "Support Vector Machine (SVM)" -> "SVC"
      [] classifier = "Logistic Regression" -> "LogisticRegression"
      [] OTHER -> "RandomForestClassifier"

\* d hundredths is a nearest hundredth of frac
IsRounded2(d, frac) ==
    LET e == 100 * frac[1] - d * frac[2]
    IN 2 * (IF e < 0 THEN -e ELSE e) <= frac[2]

\* C1: in a run whose fetch inside load_data raises a RequestException, an
\* error message is reported and neither preprocess_data nor split_data nor
\* any model work is reached.
C1_FetchFailureStops ==
    (run.called /\ run.request_exc \in RequestExceptions) =>
        /\ Has(run.out, "error", "Error fetching the data")
        /\ Calls \cap ({"preprocess_data", "split_data"} \cup ModelWork) = {}
        /\ run.model = NoModel

C1_Witness == run.called /\ run.request_exc = "HTTPError" /\ run.fetched

\* C2 (as stated): every data-unavailable outcome of load_data (no dataset
\* returned, the read by pd.read_csv failing, an empty table) ends the run
\* without an unhandled exception, with a message for the user and before any
\* model work.
C2_AsStated ==
    (run.called /\ run.data \in {"None", "raised", "empty"}) =>
        /\ run.exc = ""
        /\ \E i \in 1..Len(run.out) : run.out[i].kind = "error"
        /\ Calls \cap ModelWork = {}

\* C3 (as stated): the bootstrap handed to RandomForestClassifier is a bool
\* equal to the user's selection, the number of trees is in [100, 5000] and
\* the maximum depth in [1, 20].
C3_AsStated ==
    run.model.variant = "RandomForestClassifier" =>
        /\ run.model.bootstrap.py = "bool"
        /\ Truthy(run.model.bootstrap) = (run.widgets.bootstrap = "True")
        /\ run.model.n_estimators \in 100..5000
        /\ run.model.max_depth \in 1..20

\* C4: in each of the three branches a ValueError of precision_score or
\* recall_score is caught and reported as an error element, and the run ends
\* without an exception.
C4_MetricErrorCaught ==
    (run.called /\ run.raised # "") =>
        /\ run.exc = ""
        /\ Has(run.out, "error", "Error calculating precision and recall")
        /\ run.model.variant = Constructor(run.classifier)

C4_Witness ==
    /\ run.called
    /\ run.raised = "recall_score"
    /\ run.classifier = "Logistic Regression"

\* C7 (as stated): the cache lives in memory only, so the first run after a
\* restart of the session fetches the source again and recomputes the split.
C7_AsStated ==
    (run.called /\ run.first) =>
        /\ run.fetched
        /\ run.split_hit \in {"", "miss"}

\* C7 (amended): the cached results are also persisted on disk
\* (persist=True).  Whatever the memory cache holds is on disk too; a run
\* fetches only when the disk holds no result of load_data, in the session
\* that stored it and after a restart alike; the first run after a restart
\* finds the memory cache empty and takes the dataset and its split from disk
\* when they are there, and fetches when they are not.
C7_PersistedCache ==
    /\ mem_load \subseteq disk_load
    /\ mem_split \subseteq disk_split
    /\ run.called =>
         /\ run.on_disk => ~run.fetched
         /\ ~run.on_disk => run.fetched
         /\ run.first => run.load_hit \in {"disk", "miss"}
         /\ (run.first /\ run.on_disk /\ run.split_hit # "" /\ run.exc = "")
               => run.split_hit = "disk"

C7_Witness ==
    /\ run.called /\ run.first /\ run.on_disk
    /\ ~run.fetched
    /\ run.split_hit = "disk"

\* C8: whatever subset of the three diagnostics is selected, a classify cycle
\* whose precision and recall are computed displays accuracy, precision and
\* recall, each rounded to two decimals, and requests exactly the selected
\* diagnostics, each once.
C8_SelectedDiagnostics ==
    (run.called /\ run.pressed /\ run.model.fitted /\ run.raised = "") =>
        /\ \E d \in Shown(run.out, "Accuracy: ") : IsRounded2(d, run.acc)
        /\ \E d \in Shown(run.out, "Precision: ") : IsRounded2(d, run.prec)
        /\ \E d \in Shown(run.out, "Recall: ") : IsRounded2(d, run.rec)
        /\ {run.out[i].text : i \in {j \in 1..Len(run.out) : run.out[j].kind = "pyplot"}}
              = run.metrics
        /\ Cardinality({j \in 1..Len(run.out) : run.out[j].kind = "pyplot"})
              = Cardinality(run.metrics)

\* no diagnostic selected, and an accuracy that rounding changes (2/3 -> 0.67)
C8_Witness ==
    /\ run.called /\ run.pressed /\ run.model.fitted /\ run.raised = ""
    /\ run.metrics = {}
    /\ run.acc = <<2, 3>>
    /\ Shown(run.out, "Accuracy: ") = {67}

\* C9 (as stated): a run constructs and fits exactly one model, of the
\* selected variant, when the Classify control of that variant was pressed,
\* and none otherwise.
C9_AsStated ==
    run.called =>
        /\ run.pressed =>
              /\ run.model.variant = Constructor(run.classifier)
              /\ run.model.fitted
              /\ Calls \cap Constructors = {Constructor(run.classifier)}
        /\ ~run.pressed =>
              /\ run.model = NoModel
              /\ Calls \cap ModelWork = {}

\* C10 (as stated): when precision or recall fails after the accuracy was
\* computed, the accuracy is reported next to the error message.
C10_AsStated ==
    (run.called /\ run.raised # "" /\ run.acc # NoFrac) =>
        /\ Shown(run.out, "Accuracy: ") # {}
        /\ Has(run.out, "error", "Error calculating precision and recall")

\* C10 (amended): when precision or recall fails after the accuracy was
\* computed, the error message is reported and the accuracy is not: neither
\* accuracy nor precision nor recall nor any diagnostic is shown in that cycle.
C10_AccuracyWithheld ==
    (run.called /\ run.raised # "" /\ run.acc # NoFrac) =>
        /\ Has(run.out, "error", "Error calculating precision and recall")
        /\ Shown(run.out, "Accuracy: ") = {}
        /\ Shown(run.out, "Precision: ") = {}
        /\ Shown(run.out, "Recall: ") = {}
        /\ \A i \in 1..Len(run.out) : run.out[i].kind # "pyplot"

C10_Witness ==
    /\ run.called /\ run.raised = "recall_score"
    /\ run.acc = <<1, 3>>
    /\ "score" \in Calls

----------------------------------------------------------------------------
(* Development "split": split_data on every small encoded dataset *)

\* code points of 'e', 'p' (column type) and 'b', 'x' (a feature column)
TypeValues == {101, 112}

FeatValues == {98, 120}

RawRow == [type : TypeValues, feat : FeatValues]

\* main() hands split_data only a DataFrame that is not empty
RawRows == UNION {[1..n -> RawRow] : n \in 1..MaxRows}

EncodedDatasets == {preprocess_data(DataFrame([c \in Columns |-> "object"], rows)) : rows \in RawRows}

InitSplit ==
    /\ mem_load = {} /\ disk_load = {}
    /\ mem_split = {} /\ disk_split = {}
    /\ np_global \in 0..(RngStates - 1)
    /\ ui = DefaultUi /\ fresh = TRUE /\ strict = FALSE
    /\ run = NoRun
    /\ df_in \in EncodedDatasets
    /\ first_split = NotCalled /\ last_split = NotCalled
    /\ n_samples = 0 /\ sizes = NoSizes

CallSplitData ==
    LET c == CachedCall(mem_split, disk_split, df_in,
                        [exc |-> split_data(df_in).exc, ret |-> split_data(df_in),
                         msgs |-> <<>>])
        got == [called |-> TRUE, res |-> c.ret, hit |-> c.hit,
                again |-> first_split.called]
    IN /\ mem_split' = c.mem
       /\ disk_split' = c.disk
       /\ last_split' = got
       /\ first_split' = IF first_split.called THEN first_split ELSE got
       /\ UNCHANGED <<mem_load, disk_load, np_global, ui, fresh, strict, run,
                      df_in, n_samples, sizes>>

NextSplit == CallSplitData \/ ClearCache \/ RestartSession \/ DrawGlobal

SpecSplit == InitSplit /\ [][NextSplit]_vars

----------------------------------------------------------------------------
(* Development "sizes": the sizes train_test_split derives, around 8124 rows *)

InitSizes ==
    /\ mem_load = {} /\ disk_load = {}
    /\ mem_split = {} /\ disk_split = {}
    /\ np_global = 0
    /\ ui = DefaultUi /\ fresh = TRUE /\ strict = FALSE
    /\ run = NoRun
    /\ df_in = None
    /\ first_split = NotCalled /\ last_split = NotCalled
    /\ n_samples \in (8124 - SizeSpan)..(8124 + SizeSpan)
    /\ sizes = NoSizes

ValidateShuffleSplit ==
    /\ ~sizes.done
    /\ sizes' = [done |-> TRUE, n_train |-> NTrain(n_samples), n_test |-> NTest(n_samples)]
    /\ UNCHANGED <<mem_load, disk_load, mem_split, disk_split, np_global, ui,
                   fresh, strict, run, df_in, first_split, last_split, n_samples>>

NextSizes == ValidateShuffleSplit

SpecSizes == InitSizes /\ [][NextSizes]_vars

----------------------------------------------------------------------------
(* Claims about split_data *)

Idx(s) == [j \in 1..Len(s) |-> s[j].idx]

IdxSet(s) == {s[j].idx : j \in 1..Len(s)}

\* train and test are disjoint, cover the rows of df, x and y stay row-aligned
\* and every selected row carries the values of that row of df
IsPartition(df, r) ==
    /\ IdxSet(r.x_train) \cap IdxSet(r.x_test) = {}
    /\ IdxSet(r.x_train) \cup IdxSet(r.x_test) = 0..(Len(df.rows) - 1)
    /\ Len(r.x_train) + Len(r.x_test) = Len(df.rows)
    /\ Idx(r.x_train) = Idx(r.y_train)
    /\ Idx(r.x_test) = Idx(r.y_test)
    /\ \A j \in 1..Len(r.x_train) :
          /\ r.x_train[j].val = df.rows[r.x_train[j].idx + 1].feat
          /\ r.y_train[j].val = df.rows[r.y_train[j].idx + 1].type
    /\ \A j \in 1..Len(r.x_test) :
          /\ r.x_test[j].val = df.rows[r.x_test[j].idx + 1].feat
          /\ r.y_test[j].val = df.rows[r.y_test[j].idx + 1].type

\* C5 (as stated): on 8124 rows the test set has round(8124 * 0.3) = 2437 rows
\* and the training set 5687.
C5_AsStated ==
    (sizes.done /\ n_samples = 8124) => (sizes.n_test = 2437 /\ sizes.n_train = 5687)

\* C5 (amended): on 8124 rows the test set has ceil(8124 * 0.3) = 2438 rows and
\* the training set the remaining 5686; the two sizes always add up to the
\* number of rows.
C5_SplitSizes ==
    sizes.done =>
        /\ sizes.n_train + sizes.n_test = n_samples
        /\ n_samples = 8124 => (sizes.n_test = 2438 /\ sizes.n_train = 5686)

C5_Witness == sizes.done /\ n_samples = 8124

\* C6 (as stated): for every encoded dataset, split_data returns a partition
\* of its rows, the same one on every call.
C6_AsStated ==
    last_split.called =>
        /\ last_split.res.exc = ""
        /\ IsPartition(df_in, last_split.res)
        /\ last_split.res = first_split.res

\* C6 (amended): for every encoded dataset of at least two rows, split_data
\* returns train and test row sets that are disjoint, whose union is the rows
\* of the dataset, with features and labels row-aligned, and every call on the
\* same dataset returns the partition the first call returned; on a dataset of
\* fewer than two rows it raises ValueError instead.
C6_SplitPartition ==
    last_split.called =>
        /\ Len(df_in.rows) >= 2 =>
              /\ last_split.res.exc = ""
              /\ IsPartition(df_in, last_split.res)
              /\ last_split.res = first_split.res
        /\ Len(df_in.rows) < 2 => last_split.res.exc = "ValueError"

\* a later call that computes the split anew (the cache was cleared) after the
\* global generator moved away from the seed, on a dataset of MaxRows rows
C6_Witness ==
    /\ last_split.called /\ last_split.again
    /\ last_split.hit = "miss"
    /\ np_global # Seeded(0)
    /\ Len(df_in.rows) = MaxRows
    /\ Len(last_split.res.x_test) >= 1
    /\ Len(last_split.res.x_train) >= 2

====
